---- MODULE Spec2Model ----
(***************************************************************************)
(* Verification development for the crisis-misinformation service:         *)
(* the claim verification pipeline (src/src/fact_checker.py,               *)
(* src/src/agent.py) and the media analysis pipeline (src/src/api.py,      *)
(* src/src/deepfake_detector.py).                                          *)
(*                                                                         *)
(* Numbers.  Python floats are modelled as integers in thousandths         *)
(* (0.85 is 850); credibility scores are integers in hundredths.  All the  *)
(* modelled inputs are multiples of 0.1, so every product below is exact.  *)
(*                                                                         *)
(* Dynamic typing.  A decoded JSON value is a tagged record, so that a     *)
(* null, a string and a number are different values and the operations     *)
(* that Python refuses on them (None.upper(), "high" * 0.8) are visible    *)
(* as raised exceptions.                                                   *)
(***************************************************************************)
EXTENDS Integers, Sequences, FiniteSets, TLC

(***************************************************************************)
(* Bounds of the model.                                                    *)
(***************************************************************************)
\* longest one-sided evidence list a backend reply carries
MaxEvidence == 2
\* most claims one detection cycle extracts
MaxClaims == 2
\* longest video, in frames, and most frames asked of extract_key_frames
MaxTotalFrames == 100
MaxNumFrames == 5
\* most detection cycles the monitoring loop starts
MaxCycles == 3

(***************************************************************************)
(* JSON values                                                             *)
(***************************************************************************)
JAbsent == [t |-> "absent", s |-> "", n |-> 0]
JNull == [t |-> "null", s |-> "", n |-> 0]
JStr(x) == [t |-> "str", s |-> x, n |-> 0]
JNum(x) == [t |-> "num", s |-> "", n |-> x]
JBool(b) == [t |-> "bool", s |-> "", n |-> IF b THEN 1 ELSE 0]

\* a list-valued field of a reply: missing, null, or a list of strings
LAbsent == [t |-> "absent", l |-> <<>>]
LNull == [t |-> "null", l |-> <<>>]
LList(xs) == [t |-> "list", l |-> xs]

\* dict.get(key, default): the default only when the key is missing
Get(field, default) == IF field.t = "absent" THEN default ELSE field

\* str.upper() on the strings the model uses
Upper(x) ==
  CASE x = "true" -> "TRUE"
    [] x = "false" -> "FALSE"
    [] x = "mixed" -> "MIXED"
    [] x = "unverifiable" -> "UNVERIFIABLE"
    [] x = "likely true" -> "LIKELY TRUE"
    [] x = "real" -> "REAL"
    [] x = "fake" -> "FAKE"
    [] x = "uncertain" -> "UNCERTAIN"
    [] x = "manipulated" -> "MANIPULATED"
    [] OTHER -> x

\* a < b between two JSON values; Python raises TypeError unless both are
\* numbers or both are strings ("ok" is FALSE then)
IsNumber(v) == v.t = "num"
Comparable(a, b) == (IsNumber(a) /\ IsNumber(b)) \/ (a.t = "str" /\ b.t = "str")
\* fault variant: a >= b
Greater_orEqual(a, b) == IF IsNumber(a) /\ IsNumber(b) THEN a.n >= b.n ELSE FALSE
\* the model has a single non-numeric confidence string, so two strings
\* compare equal whenever they are compared
Greater(a, b) == IF IsNumber(a) /\ IsNumber(b) THEN a.n > b.n ELSE FALSE

(***************************************************************************)
(* Backend reply text: a sequence of tokens, a token being a code fence    *)
(* "```json", a bare fence "```", free prose, or one JSON document.        *)
(***************************************************************************)
NoObj ==
  [verdict |-> JAbsent, confidence |-> JAbsent, reasoning |-> JAbsent,
   supporting_evidence |-> LAbsent, contradicting_evidence |-> LAbsent,
   is_deepfake |-> JAbsent, artifacts_detected |-> LAbsent,
   title |-> JAbsent, summary |-> JAbsent, detailed_explanation |-> JAbsent,
   what_to_do |-> JAbsent, what_to_avoid |-> JAbsent]
FenceJson == [k |-> "fence_json", obj |-> NoObj]
Fence == [k |-> "fence", obj |-> NoObj]
Prose == [k |-> "prose", obj |-> NoObj]
\* a JSON document that is not an object (a list, a string, a number)
NonDict == [k |-> "nondict", obj |-> NoObj]
Dict(o) == [k |-> "dict", obj |-> o]

IsFence(tok) == tok.k \in {"fence_json", "fence"}
\* index of the first token satisfying the kind test after position from
FirstOf(text, kinds, from) ==
  LET hits == {i \in (from + 1)..Len(text) : text[i].k \in kinds}
  IN IF hits = {} THEN 0 ELSE CHOOSE i \in hits : \A j \in hits : i <= j

\* text.split(marker)[1].split("```")[0] where the marker is at position at:
\* what follows the marker up to the next fence of either kind
FencedPart(text, at) ==
  LET stop == FirstOf(text, {"fence_json", "fence"}, at)
      last == IF stop = 0 THEN Len(text) ELSE stop - 1
  IN SubSeq(text, at + 1, last)

StripFences(text) ==
  IF FirstOf(text, {"fence_json"}, 0) # 0
    THEN FencedPart(text, FirstOf(text, {"fence_json"}, 0))
  ELSE IF FirstOf(text, {"fence"}, 0) # 0
    THEN FencedPart(text, FirstOf(text, {"fence"}, 0))
  ELSE text

\* json.loads(text.strip()): decodes exactly one JSON document
JsonLoads(text) ==
  IF Len(text) = 1 /\ text[1].k \in {"dict", "nondict"}
    THEN [ok |-> TRUE, doc |-> text[1]]
    ELSE [ok |-> FALSE, doc |-> NonDict]

\* a backend call: the transport fails, or a reply text comes back
TransportError == [failed |-> TRUE, text |-> <<>>]
ReplyText(text) == [failed |-> FALSE, text |-> text]

(***************************************************************************)
(* A call that may raise returns [raised, exc, value].                     *)
(***************************************************************************)
Return(v) == [raised |-> FALSE, exc |-> "", value |-> v]
Raise(exc, dummy) == [raised |-> TRUE, exc |-> exc, value |-> dummy]

(***************************************************************************)
(* fact_checker.py: VerificationResult and the two verification backends   *)
(***************************************************************************)
\* reasoning is text assembled from pieces (an f-string), or None
RStr(parts) == [t |-> "str", parts |-> parts]
RNull == [t |-> "null", parts |-> <<>>]
\* how an f-string renders a value
Fmt(v) ==
  CASE v.t = "str" -> v.s
    [] v.t = "null" -> "None"
    [] v.t = "num" -> "<number>"
    [] OTHER -> "<value>"
FmtReasoning(r) == IF r.t = "str" THEN r.parts ELSE <<"None">>
ReasoningOf(v) == IF v.t = "str" THEN RStr(<<v.s>>) ELSE RNull

VerificationResult(verdict, confidence, reasoning, supporting, contradicting, model) ==
  [verdict |-> verdict, confidence |-> confidence, reasoning |-> reasoning,
   supporting_sources |-> supporting, contradicting_sources |-> contradicting,
   model_name |-> model]

\* the value of a variable that holds no result (Python None / not yet set)
NoResult == VerificationResult(JAbsent, JAbsent, RNull, <<>>, <<>>, "none")

\* the result every except-branch builds
ErrorResult(model, exc) ==
  VerificationResult(JStr("unverifiable"), JNum(0),
                     RStr(<<"Error during verification: ", exc>>), <<>>, <<>>, model)

\* [{"text": ev, "source": "AI Analysis"} for ev in evidence]
ToSources(evidence) ==
  [i \in 1..Len(evidence) |-> [text |-> evidence[i], source |-> "AI Analysis"]]

\* the statements of both backends after the reply is decoded: the two list
\* comprehensions, then result.get(...) on each field with the backend's own
\* defaults
FromDocument(doc, model, defaultConfidence, defaultReasoning) ==
  IF doc.k # "dict" THEN Raise("AttributeError", NoResult)
  ELSE IF doc.obj.supporting_evidence.t = "null"
          \/ doc.obj.contradicting_evidence.t = "null"
    THEN Raise("TypeError", NoResult)
  ELSE Return(VerificationResult(
         Get(doc.obj.verdict, JStr("unverifiable")),
         Get(doc.obj.confidence, JNum(defaultConfidence)),
         ReasoningOf(Get(doc.obj.reasoning, JStr(defaultReasoning))),
         ToSources(doc.obj.supporting_evidence.l),
         ToSources(doc.obj.contradicting_evidence.l),
         model))

\* an except-branch: whatever the try block raised becomes the error result
Caught(attempt, model) ==
  IF attempt.raised THEN Return(ErrorResult(model, attempt.exc)) ELSE attempt

\* the try block of verify_with_gemini
gemini_try(reply) ==
  IF reply.failed THEN Raise("TransportError", NoResult)
  ELSE LET dec == JsonLoads(StripFences(reply.text))
       IN IF ~dec.ok THEN Raise("JSONDecodeError", NoResult)
          ELSE FromDocument(dec.doc, "gemini", 0, "No reasoning provided")

verify_with_gemini(reply) == Caught(gemini_try(reply), "gemini")

\* the try block of verify_with_openai; no fence stripping here: the reply is
\* requested as a JSON object
openai_try(reply) ==
  IF reply.failed THEN Raise("TransportError", NoResult)
  ELSE LET dec == JsonLoads(reply.text)
       IN IF ~dec.ok THEN Raise("JSONDecodeError", NoResult)
          ELSE FromDocument(dec.doc, "openai", 500, "")

\* fault variant: the handler is missing, the try block's outcome gets out
verify_with_openai_uncaught(reply) == openai_try(reply)
verify_with_openai(reply) == Caught(openai_try(reply), "openai")

\* fault variant: no disagreement penalty
TimesPenalty_none(n) == n
\* x * 0.8 in thousandths
TimesPenalty(n) == (n * 8) \div 10
\* fault variant: the first argument instead of the larger one
PyMax_first(a, b) == a
\* max(a, b): b when b > a, else a
PyMax(a, b) == IF Greater(b, a) THEN b ELSE a

\* the second list without the entries the first list already has
Unseen(first, second) ==
  SelectSeq(second, LAMBDA x : \A i \in DOMAIN first : first[i] # x)
\* evidence merged with duplicates dropped
ConsensusResult_dedup(verdict, confidence, reasoning, gemini, openai) ==
  VerificationResult(verdict, confidence, reasoning,
                     gemini.supporting_sources
                       \o Unseen(gemini.supporting_sources, openai.supporting_sources),
                     gemini.contradicting_sources
                       \o Unseen(gemini.contradicting_sources,
                                 openai.contradicting_sources),
                     "consensus")

ConsensusResult(verdict, confidence, reasoning, gemini, openai) ==
  VerificationResult(verdict, confidence, reasoning,
                     gemini.supporting_sources \o openai.supporting_sources,
                     gemini.contradicting_sources \o openai.contradicting_sources,
                     "consensus")

_create_consensus(gemini, openai) ==
  IF gemini.verdict = openai.verdict
    THEN IF ~Comparable(gemini.confidence, openai.confidence)
           THEN Raise("TypeError", NoResult)
         ELSE IF gemini.verdict.t # "str"
           THEN Raise("AttributeError", NoResult)
         ELSE Return(ConsensusResult(
                gemini.verdict,
                PyMax(gemini.confidence, openai.confidence),
                RStr(<<"Both models agree: ", Upper(gemini.verdict.s), "Gemini: ">>
                     \o FmtReasoning(gemini.reasoning) \o <<"OpenAI: ">>
                     \o FmtReasoning(openai.reasoning)),
                gemini, openai))
  ELSE IF ~Comparable(gemini.confidence, openai.confidence)
    THEN Raise("TypeError", NoResult)
  ELSE LET winner == IF Greater(gemini.confidence, openai.confidence)
                       THEN gemini ELSE openai
       IN IF ~IsNumber(winner.confidence)
            THEN Raise("TypeError", NoResult)
          ELSE Return(ConsensusResult(
                 winner.verdict,
                 JNum(TimesPenalty(winner.confidence.n)),
                 RStr(<<"Models disagree (Gemini: ", Fmt(gemini.verdict),
                        ", OpenAI: ", Fmt(openai.verdict), ")", "Gemini: ">>
                      \o FmtReasoning(gemini.reasoning) \o <<"OpenAI: ">>
                      \o FmtReasoning(openai.reasoning)),
                 gemini, openai))

\* round(num / den, 2) in hundredths, ties to even, on the exact quotient
Round2(num, den) ==
  LET q == (100 * num) \div den
      r == (100 * num) % den
  IN IF 2 * r < den THEN q
     ELSE IF 2 * r > den THEN q + 1
     ELSE IF q % 2 = 0 THEN q ELSE q + 1

\* fault variant: unrecognized verdicts scored like 'unverifiable'
VerdictScore_default(verdict) ==
  IF verdict.t # "str" THEN 3
  ELSE CASE verdict.s = "true" -> 9
         [] verdict.s = "false" -> 1
         [] verdict.s = "mixed" -> 5
         [] OTHER -> 3
\* verdict_scores.get(verdict, 0.5), in tenths
VerdictScore(verdict) ==
  IF verdict.t # "str" THEN 5
  ELSE CASE verdict.s = "true" -> 9
         [] verdict.s = "false" -> 1
         [] verdict.s = "mixed" -> 5
         [] verdict.s = "unverifiable" -> 3
         [] OTHER -> 5

calculate_credibility_score(verification) ==
  IF ~IsNumber(verification.confidence) THEN Raise("TypeError", 0)
  ELSE LET base_score == VerdictScore(verification.verdict)
           \* base_score * confidence, in ten-thousandths
           credibility == base_score * verification.confidence.n
           supporting_count == Len(verification.supporting_sources)
           contradicting_count == Len(verification.contradicting_sources)
           total == supporting_count + contradicting_count
       IN IF total > 0
            \* (credibility + supporting_count / total) / 2
            THEN Return(Round2(credibility * total + 10000 * supporting_count,
                               2 * 10000 * total))
            ELSE Return(Round2(credibility, 10000))

(***************************************************************************)
(* explanation_generator.py                                                *)
(***************************************************************************)
Explanation(title, summary, detailed, citations, what_to_do, what_to_avoid, level) ==
  [title |-> title, summary |-> summary, detailed_explanation |-> detailed,
   citations |-> citations, what_to_do |-> what_to_do,
   what_to_avoid |-> what_to_avoid, audience_level |-> level]
NoExplanation == Explanation(RNull, RNull, RNull, <<>>, RNull, RNull, "none")

AudienceLevels == {"simple", "general", "expert"}

\* f"{confidence:.0%}" for a number in thousandths
Percent(n) == <<ToString(n \div 10), "%">>

\* verification.verdict.upper() and f"{verification.confidence:.0%}" are
\* evaluated both by the prompt and by the fallback
FormatsVerification(verification) ==
  verification.verdict.t = "str" /\ IsNumber(verification.confidence)

\* all entries, with no cut after the third
Citations_all(verification) ==
  [i \in 1..Len(verification.supporting_sources) |->
     [text |-> verification.supporting_sources[i].text,
      source |-> verification.supporting_sources[i].source,
      type |-> "supporting"]]

\* verification.supporting_sources[:3], each tagged "supporting"
Citations(verification) ==
  [i \in 1..(IF Len(verification.supporting_sources) < 3
               THEN Len(verification.supporting_sources) ELSE 3) |->
     [text |-> verification.supporting_sources[i].text,
      source |-> verification.supporting_sources[i].source,
      type |-> "supporting"]]

FallbackExplanation(verification, level) ==
  Explanation(
    RStr(<<"Claim Verification: ", Upper(verification.verdict.s)>>),
    RStr(<<"This claim has been assessed as ", verification.verdict.s, " with ">>
         \o Percent(verification.confidence.n) \o <<" confidence.">>),
    verification.reasoning,
    <<>>,
    RStr(<<"Verify information from multiple credible sources before sharing.">>),
    RStr(<<"Avoid sharing unverified claims during crisis situations.">>),
    level)

\* the tier as requested, whether or not it has a template
TemplateFor_asis(tier) == tier
\* the tier whose template is formatted: 'general' for an unknown one
TemplateFor(tier) == IF tier \notin AudienceLevels THEN "general" ELSE tier

generate_explanation(verification, tier, reply) ==
  LET level == TemplateFor(tier)
      dec == JsonLoads(StripFences(reply.text))
  IN IF ~FormatsVerification(verification)
       \* the prompt raises, and so does the fallback built in the handler
       THEN Raise(IF verification.verdict.t # "str" THEN "AttributeError"
                  ELSE "TypeError", NoExplanation)
     ELSE IF reply.failed \/ ~dec.ok \/ dec.doc.k # "dict"
       THEN Return(FallbackExplanation(verification, level))
     ELSE Return(Explanation(
            ReasoningOf(Get(dec.doc.obj.title, JStr("Fact Check Result"))),
            ReasoningOf(Get(dec.doc.obj.summary, JStr(""))),
            ReasoningOf(Get(dec.doc.obj.detailed_explanation, JStr(""))),
            Citations(verification),
            ReasoningOf(Get(dec.doc.obj.what_to_do, JStr(""))),
            ReasoningOf(Get(dec.doc.obj.what_to_avoid, JStr(""))),
            level))

(***************************************************************************)
(* deepfake_detector.py                                                    *)
(***************************************************************************)
DeepfakeAnalysisResult(is_deepfake, confidence, verdict, reasoning, artifacts, metadata, model) ==
  [is_deepfake |-> is_deepfake, confidence |-> confidence, verdict |-> verdict,
   reasoning |-> reasoning, artifacts_detected |-> artifacts,
   metadata_issues |-> metadata, model_name |-> model]
NoAnalysis ==
  DeepfakeAnalysisResult(JAbsent, JAbsent, JAbsent, RNull, LNull, <<>>, "none")

\* the result both except-branches build
ErrorAnalysis(model, exc) ==
  DeepfakeAnalysisResult(JBool(FALSE), JNum(0), JStr("uncertain"),
                         RStr(<<"Error during analysis: ", exc>>),
                         LList(<<>>), <<>>, model)

\* result.get(...) on each field of the decoded reply
AnalysisFromDocument(doc, model) ==
  IF doc.k # "dict" THEN Raise("AttributeError", NoAnalysis)
  ELSE Return(DeepfakeAnalysisResult(
         Get(doc.obj.is_deepfake, JBool(FALSE)),
         Get(doc.obj.confidence, JNum(500)),
         Get(doc.obj.verdict, JStr("uncertain")),
         ReasoningOf(Get(doc.obj.reasoning, JStr(""))),
         Get(doc.obj.artifacts_detected, LList(<<>>)),
         <<>>, model))

CaughtAnalysis(attempt, model) ==
  IF attempt.raised THEN Return(ErrorAnalysis(model, attempt.exc)) ELSE attempt

\* ImageDeepfakeDetector.analyze_with_gemini; opening the image is part of
\* the try block, a file that cannot be read counts as a failed call
analyze_with_gemini(reply) ==
  CaughtAnalysis(
    IF reply.failed THEN Raise("TransportError", NoAnalysis)
    ELSE LET dec == JsonLoads(StripFences(reply.text))
         IN IF ~dec.ok THEN Raise("JSONDecodeError", NoAnalysis)
            ELSE AnalysisFromDocument(dec.doc, "gemini-vision"),
    "gemini-vision")

\* ImageDeepfakeDetector.analyze_with_openai
analyze_with_openai(reply) ==
  CaughtAnalysis(
    IF reply.failed THEN Raise("TransportError", NoAnalysis)
    ELSE LET dec == JsonLoads(reply.text)
         IN IF ~dec.ok THEN Raise("JSONDecodeError", NoAnalysis)
            ELSE AnalysisFromDocument(dec.doc, "openai-vision"),
    "openai-vision")

\* the second list joined without the entries the first already has
MergeLists_dedup(first, second) == first \o Unseen(first, second)
\* list + list
MergeLists(first, second) == first \o second

\* DeepfakeDetector._create_consensus
detector_create_consensus(gemini, openai) ==
  LET agree == gemini.verdict = openai.verdict
      winner == IF agree \/ Greater(gemini.confidence, openai.confidence)
                  THEN gemini ELSE openai
  IN IF ~Comparable(gemini.confidence, openai.confidence)
       THEN Raise("TypeError", NoAnalysis)
     ELSE IF agree /\ gemini.verdict.t # "str"
       THEN Raise("AttributeError", NoAnalysis)
     ELSE IF ~agree /\ ~IsNumber(winner.confidence)
       THEN Raise("TypeError", NoAnalysis)
     ELSE IF gemini.artifacts_detected.t # "list" \/ openai.artifacts_detected.t # "list"
       THEN Raise("TypeError", NoAnalysis)
     ELSE Return(DeepfakeAnalysisResult(
            winner.is_deepfake,
            IF agree THEN PyMax(gemini.confidence, openai.confidence)
            ELSE JNum(TimesPenalty(winner.confidence.n)),
            winner.verdict,
            IF agree
              THEN RStr(<<"Both models agree: ", Upper(gemini.verdict.s), "Gemini: ">>
                        \o FmtReasoning(gemini.reasoning) \o <<"OpenAI: ">>
                        \o FmtReasoning(openai.reasoning))
              ELSE RStr(<<"Models disagree (Gemini: ", Fmt(gemini.verdict),
                          ", OpenAI: ", Fmt(openai.verdict), ")", "Gemini: ">>
                        \o FmtReasoning(gemini.reasoning) \o <<"OpenAI: ">>
                        \o FmtReasoning(openai.reasoning)),
            LList(MergeLists(gemini.artifacts_detected.l, openai.artifacts_detected.l)),
            MergeLists(gemini.metadata_issues, openai.metadata_issues),
            "consensus"))

\* DeepfakeDetector.analyze_image: the pair it returns, or the exception of
\* _create_consensus; the second backend is called in consensus mode only
analyze_image(metadata_issues, consensus, gemini_reply, openai_reply) ==
  LET gemini_analysis == [analyze_with_gemini(gemini_reply).value
                          EXCEPT !.metadata_issues = metadata_issues]
      openai_analysis == [analyze_with_openai(openai_reply).value
                          EXCEPT !.metadata_issues = metadata_issues]
      merged == detector_create_consensus(gemini_analysis, openai_analysis)
  IN IF consensus
       THEN IF merged.raised THEN Raise(merged.exc, <<NoAnalysis, NoAnalysis>>)
            ELSE Return(<<merged.value, gemini_analysis>>)
       ELSE Return(<<gemini_analysis, NoAnalysis>>)

\* the backends one call of analyze_image invokes, in order
BackendsCalled(consensus) ==
  IF consensus THEN <<"gemini-vision", "openai-vision">> ELSE <<"gemini-vision">>

\* frames analyze_video asks extract_key_frames for
NumFrames == 3
\* use_consensus left at its default True
FrameConsensus_default == TRUE
\* analyze_video passes use_consensus=False for every frame
FrameConsensus == FALSE

\* the quotient rounded to the nearest integer, halves upwards
ToInt_round(num, den) == (2 * num + den) \div (2 * den)
\* astype(int) of the quotient num / den, den > 0: towards zero
ToInt(num, den) == IF num >= 0 THEN num \div den ELSE -((-num) \div den)

\* np.linspace(0, total_frames - 1, num_frames, dtype=int): the samples
\* i * (total_frames - 1) / (num_frames - 1), the last one the endpoint itself,
\* converted to int; the quotients are taken exactly
frame_indices(total_frames, num_frames) ==
  [k \in 1..num_frames |->
     IF num_frames = 1 THEN 0
     ELSE IF k = num_frames THEN total_frames - 1
     ELSE ToInt((k - 1) * (total_frames - 1), num_frames - 1)]

RECURSIVE Sum(_)
Sum(xs) == IF xs = <<>> THEN 0 ELSE Head(xs) + Sum(Tail(xs))
\* truthiness of an is_deepfake value
Truthy(v) == (v.t = "bool" /\ v.n = 1) \/ (v.t = "num" /\ v.n # 0) \/ (v.t = "str" /\ v.s # "")

\* one entry of frame_results
FrameResult(result) ==
  [is_deepfake |-> result.is_deepfake, confidence |-> result.confidence,
   verdict |-> result.verdict]

\* a vote that needs more than half of the frames
MajorityVote_strict(deepfake_count, frames) == 2 * deepfake_count > frames
\* deepfake_count >= len(frame_results) / 2
MajorityVote(deepfake_count, frames) == 2 * deepfake_count >= frames

\* the aggregation of analyze_video over the per-frame results; np.mean raises
\* on a confidence that is no number.  The mean is exact for the modelled frame
\* confidences, which are multiples of 0.3.
aggregate_video(frame_results) ==
  LET deepfake_count ==
        Cardinality({i \in 1..Len(frame_results) :
                       Truthy(frame_results[i].is_deepfake)})
      is_deepfake == MajorityVote(deepfake_count, Len(frame_results))
  IN IF \E i \in 1..Len(frame_results) : ~IsNumber(frame_results[i].confidence)
       THEN Raise("TypeError", [is_deepfake |-> JNull, confidence |-> JNull,
                                verdict |-> JNull, frame_analysis |-> <<>>,
                                frames_analyzed |-> 0])
     ELSE Return([is_deepfake |-> JBool(is_deepfake),
                  confidence |->
                    JNum(Sum([i \in 1..Len(frame_results) |->
                                frame_results[i].confidence.n])
                         \div Len(frame_results)),
                  verdict |-> JStr(IF is_deepfake THEN "fake" ELSE "real"),
                  frame_analysis |-> frame_results,
                  frames_analyzed |-> Len(frame_results)])

(***************************************************************************)
(* The replies the backends can give                                       *)
(***************************************************************************)
\* evidence texts are numbered; a list of n of them
Evidence(n) == [i \in 1..n |-> i]

VerdictValues ==
  {JAbsent, JNull, JNum(1), JStr("likely true"),
   JStr("true"), JStr("false"), JStr("mixed"), JStr("unverifiable")}
ConfidenceValues ==
  {JAbsent, JNull, JStr("high"), JNum(-200), JNum(500), JNum(1000), JNum(1500)}
EvidenceValues ==
  {<<LAbsent, LAbsent>>,
   <<LList(Evidence(3)), LList(Evidence(1))>>,
   <<LList(Evidence(MaxEvidence)), LList(<<>>)>>,
   <<LList(<<>>), LList(Evidence(MaxEvidence))>>,
   <<LNull, LList(<<>>)>>}

VerdictObject(verdict, confidence, reasoning, evidence) ==
  [NoObj EXCEPT !.verdict = verdict, !.confidence = confidence,
                !.reasoning = reasoning,
                !.supporting_evidence = evidence[1],
                !.contradicting_evidence = evidence[2]]

\* a well-formed reply, used where only the wrapping varies
SampleObject ==
  VerdictObject(JStr("true"), JNum(1000), JStr("r"), <<LAbsent, LAbsent>>)

\* the ways a reply text can wrap its payload
Wrappings(doc) ==
  {<<doc>>,
   <<FenceJson, doc, Fence>>,
   <<Fence, doc, Fence>>,
   <<Prose, FenceJson, doc, Fence, Prose>>,
   <<Prose, doc>>}

VerificationReplies ==
  {TransportError}
  \* every verdict with every confidence, no evidence fields
  \cup {ReplyText(<<Dict(VerdictObject(v, c, JStr("r"), <<LAbsent, LAbsent>>))>>) :
          v \in VerdictValues, c \in ConfidenceValues}
  \* every string verdict with every evidence, confidence 0.5 or 1.0
  \cup {ReplyText(<<Dict(VerdictObject(v, c, JStr("r"), e))>>) :
          v \in {x \in VerdictValues : x.t = "str"},
          c \in {JNum(500), JNum(1000)}, e \in EvidenceValues}
  \* the optional fields missing
  \cup {ReplyText(<<Dict(VerdictObject(JStr("false"), c, JAbsent, <<LAbsent, LAbsent>>))>>) :
          c \in {JAbsent, JNum(500)}}
  \cup {ReplyText(w) : w \in Wrappings(Dict(SampleObject)) \cup Wrappings(NonDict)}
  \cup {ReplyText(<<Prose>>), ReplyText(<<>>)}

ExplanationObject ==
  [NoObj EXCEPT !.title = JStr("t"), !.summary = JStr("s"),
                !.detailed_explanation = JStr("d"),
                !.what_to_do = JStr("do"), !.what_to_avoid = JStr("avoid")]
ExplanationReplies ==
  {TransportError, ReplyText(<<Prose>>),
   ReplyText(<<FenceJson, Dict(ExplanationObject), Fence>>),
   ReplyText(<<Dict(NoObj)>>), ReplyText(<<NonDict>>)}
\* tiers a caller asks for: the three with a template and one without
TierValues == AudienceLevels \cup {"kids"}

\* urgency scores of extracted claims, around the 0.6 threshold
UrgencyValues == {500, 600, 700}

VisionObject(verdict, confidence, is_deepfake, artifacts) ==
  [NoObj EXCEPT !.verdict = verdict, !.confidence = confidence,
                !.is_deepfake = is_deepfake, !.reasoning = JStr("r"),
                !.artifacts_detected = artifacts]
SampleVision ==
  VisionObject(JStr("fake"), JNum(900), JBool(TRUE), LList(<<"extra finger">>))
\* well-formed answers, answers with a field null, missing or out of range,
\* and text that is no JSON document
VisionObjects ==
  {VisionObject(JStr("real"), JNum(600), JBool(FALSE), LList(<<>>)),
   VisionObject(JStr("manipulated"), JNum(600), JBool(TRUE), LList(<<"blur">>)),
   VisionObject(JNull, JNum(900), JBool(FALSE), LList(<<>>)),
   VisionObject(JStr("fake"), JNull, JBool(TRUE), LList(<<>>)),
   VisionObject(JStr("fake"), JNum(1500), JBool(TRUE), LList(<<>>)),
   VisionObject(JStr("fake"), JNum(900), JBool(TRUE), LNull),
   VisionObject(JAbsent, JAbsent, JAbsent, LAbsent),
   VisionObject(JStr("fake"), JNum(900), JStr("yes"), LList(<<>>)),
   VisionObject(JStr("uncertain"), JNum(600), JBool(TRUE), LList(<<>>))}
VisionReplies ==
  {TransportError, ReplyText(<<Prose>>),
   ReplyText(<<FenceJson, Dict(SampleVision), Fence>>)}
  \cup {ReplyText(<<Dict(o)>>) : o \in VisionObjects}
\* what the backend answers for one video frame
FrameReplies ==
  {TransportError,
   ReplyText(<<Dict(SampleVision)>>),
   ReplyText(<<Dict(VisionObject(JStr("real"), JNum(600), JBool(FALSE), LList(<<>>)))>>),
   ReplyText(<<Dict(VisionObject(JStr("fake"), JNull, JBool(TRUE), LList(<<>>)))>>)}
\* what analyze_metadata finds in an image file
MetadataValues == {<<>>, <<"missing_exif">>}
\* suffixes of uploaded file names
Extensions == {".jpg", ".png", ".mp4", ".webm", ".gif", ""}

(***************************************************************************)
(* State                                                                   *)
(***************************************************************************)
VARIABLES
  \* settings.enable_consensus_mode, fixed when the process starts
  enable_consensus_mode,
  \* where the processing of the current claim stands
  pc,
  \* the urgency scores of the cycle's extracted claims and the loop's index
  extracted_claims, claim_index,
  \* the ExtractedClaim being processed and verify_claim's use_consensus
  claim, use_consensus,
  \* what each backend answered to the current claim
  gemini_response, openai_response,
  \* verify_claim's locals and what it returned
  gemini_result, openai_result, primary_verification, secondary_verification,
  \* calculate_credibility_score's value, in hundredths
  credibility_score,
  \* the tier generate_explanation is called with, the template it formats,
  \* what the backend answered and the Explanation returned
  audience_level, prompt_template, explanation_response, explanation,
  \* rows added to the database session, and the rows committed
  session, committed,
  \* the exception that left the claim's processing and the call that raised it
  error,
  \* the media record and the background analysis tasks
  media, tasks,
  \* what the last media request answered
  http_response,
  \* a direct call of DeepfakeDetector.analyze_image: its arguments, what the
  \* backends answered, and what it returned
  image_analysis,
  \* a call of extract_key_frames: the video's length, the frames asked for
  \* and the indices selected
  key_frames,
  \* the agent's is_running flag and the loop of start_monitoring: where it
  \* stands, the cycles it started, how many of them raised, and whether
  \* stop_monitoring was called since the last start_monitoring
  monitoring

verifyVars ==
  <<pc, extracted_claims, claim_index, claim, use_consensus, gemini_response, openai_response, gemini_result,
    openai_result, primary_verification, secondary_verification,
    credibility_score, audience_level, prompt_template, explanation_response,
    explanation, session, committed, error>>
explainVars == <<prompt_template, explanation_response, explanation>>
mediaVars == <<media, tasks, http_response, image_analysis, key_frames>>
vars == <<enable_consensus_mode, verifyVars, mediaVars, monitoring>>

\* urgency threshold of consensus mode, in thousandths
UrgencyThreshold == 600

(***************************************************************************)
(* Database rows (the columns the model follows)                           *)
(***************************************************************************)
Row(table, model, verdict, confidence, score) ==
  [table |-> table, model_name |-> model, verdict |-> verdict,
   confidence |-> confidence, credibility_score |-> score]
ClaimRow(verification, score) ==
  Row("claims", "", verification.verdict, JAbsent, score)
VerificationRow(verification) ==
  Row("verifications", verification.model_name, verification.verdict,
      verification.confidence, 0)
ExplanationRow(rendered) ==
  Row("explanations", rendered.audience_level, JAbsent, JAbsent, 0)

\* the media record before upload
NoMedia ==
  [exists |-> FALSE, file_type |-> "", analysis_status |-> "",
   is_deepfake |-> JNull, deepfake_confidence |-> JNum(0),
   consensus_verdict |-> JNull,
   gemini_verdict |-> JNull, gemini_confidence |-> JNull,
   openai_verdict |-> JNull, openai_confidence |-> JNull,
   artifacts_detected |-> LNull, metadata_analysis |-> LNull,
   frame_analysis |-> <<>>, analysis_report |-> RNull, model_used |-> ""]

\* analyze_image not called
NoImageAnalysis ==
  [called |-> FALSE, use_consensus |-> FALSE, metadata_issues |-> <<>>,
   gemini |-> NoAnalysis, openai |-> NoAnalysis, raised |-> FALSE,
   primary |-> NoAnalysis, secondary |-> NoAnalysis]

\* extract_key_frames not called
NoKeyFrames ==
  [called |-> FALSE, total_frames |-> 0, num_frames |-> 0, indices |-> <<>>]

\* MisinfoAgent.__init__: is_running False, no loop started
NoMonitoring ==
  [is_running |-> FALSE, pc |-> "idle", cycles |-> 0, failures |-> 0,
   stopped |-> FALSE]

\* no backend call made yet
NoResponse == [failed |-> FALSE, text |-> <<Prose, Prose>>]
NoError == [exc |-> "", origin |-> ""]
Error(exc, origin) == [exc |-> exc, origin |-> origin]

Init ==
  /\ enable_consensus_mode \in BOOLEAN
  /\ pc = "idle"
  /\ extracted_claims = <<>>
  /\ claim_index = 0
  /\ claim = [urgency_score |-> 0]
  /\ use_consensus = FALSE
  /\ gemini_response = NoResponse
  /\ openai_response = NoResponse
  /\ gemini_result = NoResult
  /\ openai_result = NoResult
  /\ primary_verification = NoResult
  /\ secondary_verification = NoResult
  /\ credibility_score = 0
  /\ audience_level = ""
  /\ prompt_template = ""
  /\ explanation_response = NoResponse
  /\ explanation = NoExplanation
  /\ session = <<>>
  /\ committed = <<>>
  /\ error = NoError
  /\ media = NoMedia
  /\ tasks = <<>>
  /\ http_response = ""
  /\ image_analysis = NoImageAnalysis
  /\ key_frames = NoKeyFrames
  /\ monitoring = NoMonitoring

(***************************************************************************)
(* agent.py run_detection_cycle, one extracted claim: verify_claim, then   *)
(* score and stage the rows, then explain and commit; any exception rolls  *)
(* the session back and leaves the cycle.                                  *)
(***************************************************************************)
\* the cycle extracted a batch of claims; the loop takes the first one and
\* calls verify_claim
BeginClaim(batch, consensus) ==
  /\ pc = "idle"
  /\ batch # <<>>
  /\ pc' = "verify_gemini"
  /\ extracted_claims' = batch
  /\ claim_index' = 1
  /\ claim' = [urgency_score |-> batch[1]]
  /\ use_consensus' = consensus
  /\ audience_level' = "general"
  /\ UNCHANGED <<enable_consensus_mode, monitoring, gemini_response, openai_response,
                 gemini_result, openai_result, primary_verification,
                 secondary_verification, credibility_score, explainVars,
                 session, committed, error, mediaVars>>

\* the branch taken from the threshold itself upwards
ConsensusMode_atleast ==
  use_consensus /\ enable_consensus_mode /\ claim.urgency_score >= UrgencyThreshold

\* the condition of verify_claim's consensus branch
ConsensusMode ==
  use_consensus /\ enable_consensus_mode /\ claim.urgency_score > UrgencyThreshold

\* verify_claim: await verify_with_gemini; without consensus mode it returns
VerifyGemini(reply) ==
  /\ pc = "verify_gemini"
  /\ gemini_response' = reply
  /\ LET call == verify_with_gemini(reply)
     IN IF call.raised
          THEN /\ pc' = "rolled_back"
               /\ error' = Error(call.exc, "verify_with_gemini")
               /\ session' = <<>>
               /\ UNCHANGED <<gemini_result, primary_verification,
                              secondary_verification>>
          ELSE /\ gemini_result' = call.value
               /\ UNCHANGED <<error, session>>
               /\ IF ConsensusMode
                    THEN /\ pc' = "verify_openai"
                         /\ UNCHANGED <<primary_verification, secondary_verification>>
                    ELSE /\ pc' = "verified"
                         /\ primary_verification' = call.value
                         /\ secondary_verification' = NoResult
  /\ UNCHANGED <<enable_consensus_mode, monitoring, extracted_claims, claim_index, claim,
                 use_consensus, openai_response, openai_result,
                 credibility_score, audience_level, explainVars, committed,
                 mediaVars>>

\* verify_claim: await verify_with_openai, then _create_consensus and return;
\* an exception of _create_consensus reaches the cycle's handler: rollback
VerifyOpenai(reply) ==
  /\ pc = "verify_openai"
  /\ openai_response' = reply
  /\ LET call == verify_with_openai(reply)
         consensus == _create_consensus(gemini_result, call.value)
     IN IF call.raised
          THEN /\ pc' = "rolled_back"
               /\ error' = Error(call.exc, "verify_with_openai")
               /\ session' = <<>>
               /\ UNCHANGED <<openai_result, primary_verification,
                              secondary_verification>>
          ELSE /\ openai_result' = call.value
               /\ IF consensus.raised
                    THEN /\ pc' = "rolled_back"
                         /\ error' = Error(consensus.exc, "_create_consensus")
                         /\ session' = <<>>
                         /\ UNCHANGED <<primary_verification, secondary_verification>>
                    ELSE /\ pc' = "verified"
                         /\ primary_verification' = consensus.value
                         /\ secondary_verification' = gemini_result
                         /\ UNCHANGED <<error, session>>
  /\ UNCHANGED <<enable_consensus_mode, monitoring, extracted_claims, claim_index, claim,
                 use_consensus, gemini_response, gemini_result,
                 credibility_score, audience_level, explainVars, committed,
                 mediaVars>>

\* calculate_credibility_score, then db.add of the Claim row, the primary
\* Verification row and the secondary one when there is one
\* fault variant: the rows are committed where they are flushed
Flush_commit(rows, staged) == rows \o staged
\* db.flush() sends the staged rows inside the open transaction; the committed
\* rows stay as they are
Flush(rows, staged) == rows

ScoreAndStage ==
  /\ pc = "verified"
  /\ LET score == calculate_credibility_score(primary_verification)
         staged == <<ClaimRow(primary_verification, score.value),
                     VerificationRow(primary_verification)>>
     IN IF score.raised
          THEN /\ pc' = "rolled_back"
               /\ error' = Error(score.exc, "calculate_credibility_score")
               /\ session' = <<>>
               /\ UNCHANGED <<credibility_score, committed>>
          ELSE /\ pc' = "explain"
               /\ credibility_score' = score.value
               /\ session' =
                    session \o staged
                    \o (IF secondary_verification # NoResult
                          THEN <<VerificationRow(secondary_verification)>>
                          ELSE <<>>)
               /\ committed' = Flush(committed, staged)
               /\ UNCHANGED error
  /\ UNCHANGED <<enable_consensus_mode, monitoring, extracted_claims, claim_index, claim,
                 use_consensus, gemini_response, openai_response, gemini_result,
                 openai_result, primary_verification, secondary_verification,
                 audience_level, explainVars, mediaVars>>

\* what verify_claim's locals and the loop's locals hold before a claim's turn
FreshLocals ==
  /\ gemini_response' = NoResponse
  /\ openai_response' = NoResponse
  /\ gemini_result' = NoResult
  /\ openai_result' = NoResult
  /\ primary_verification' = NoResult
  /\ secondary_verification' = NoResult
  /\ credibility_score' = 0

\* await generate_explanation(claim, primary, 'general') and db.add of its row;
\* then the loop takes the next claim or, the batch being done, db.commit();
\* an exception rolls the session back and leaves the cycle
ExplainAndCommit(reply) ==
  /\ pc = "explain"
  /\ explanation_response' = reply
  /\ prompt_template' = TemplateFor(audience_level)
  /\ LET call == generate_explanation(primary_verification, audience_level, reply)
         staged == session \o <<ExplanationRow(call.value)>>
     IN IF call.raised
          THEN /\ pc' = "rolled_back"
               /\ error' = Error(call.exc, "generate_explanation")
               /\ session' = <<>>
               /\ UNCHANGED <<explanation, committed, claim_index, claim, gemini_response,
                              openai_response, gemini_result, openai_result,
                              primary_verification, secondary_verification,
                              credibility_score>>
          ELSE IF claim_index < Len(extracted_claims)
            THEN /\ pc' = "verify_gemini"
                 /\ claim_index' = claim_index + 1
                 /\ claim' = [urgency_score |-> extracted_claims[claim_index + 1]]
                 /\ session' = staged
                 /\ explanation' = call.value
                 /\ FreshLocals
                 /\ UNCHANGED <<committed, error>>
            ELSE /\ pc' = "committed"
                 /\ committed' = committed \o staged
                 /\ session' = <<>>
                 /\ explanation' = call.value
                 /\ UNCHANGED <<error, claim_index, claim, gemini_response,
                                openai_response, gemini_result, openai_result,
                                primary_verification, secondary_verification,
                                credibility_score>>
  /\ UNCHANGED <<enable_consensus_mode, monitoring, extracted_claims, use_consensus,
                 audience_level, mediaVars>>

Next ==
  \/ \E urgency \in UrgencyValues, consensus \in BOOLEAN :
       BeginClaim(<<urgency>>, consensus)
  \/ \E reply \in VerificationReplies : VerifyGemini(reply)
  \/ \E reply \in VerificationReplies : VerifyOpenai(reply)
  \/ ScoreAndStage
  \/ \E reply \in ExplanationReplies : ExplainAndCommit(reply)

Spec == Init /\ [][Next]_vars

(***************************************************************************)
(* A detection cycle over a batch of up to MaxClaims claims.  The cycle    *)
(* passes use_consensus=True; the replies are a well-formed one, one with  *)
(* a null verdict, one with a null confidence, and a failed call.          *)
(***************************************************************************)
Batches ==
  {[i \in 1..n |-> 700] : n \in 1..MaxClaims}
BatchReplies ==
  {TransportError,
   ReplyText(<<Dict(VerdictObject(JStr("true"), JNum(1000), JStr("r"),
                                  <<LAbsent, LAbsent>>))>>),
   ReplyText(<<Dict(VerdictObject(JNull, JNum(500), JStr("r"),
                                  <<LAbsent, LAbsent>>))>>),
   ReplyText(<<Dict(VerdictObject(JStr("false"), JNull, JStr("r"),
                                  <<LAbsent, LAbsent>>))>>)}

NextBatch ==
  \/ \E batch \in Batches : BeginClaim(batch, TRUE)
  \/ \E reply \in BatchReplies : VerifyGemini(reply)
  \/ \E reply \in BatchReplies : VerifyOpenai(reply)
  \/ ScoreAndStage
  \/ \E reply \in ExplanationReplies : ExplainAndCommit(reply)

SpecBatch == Init /\ [][NextBatch]_vars

(***************************************************************************)
(* agent.py verify_custom_claim: one user-submitted claim of urgency 0.7,  *)
(* verified with use_consensus=True, explained for the requested tier,     *)
(* then scored and persisted.  An exception leaves the method.             *)
(***************************************************************************)
CustomUrgency == 700

BeginCustomClaim(tier) ==
  /\ pc = "idle"
  /\ pc' = "verify_gemini"
  /\ extracted_claims' = <<CustomUrgency>>
  /\ claim_index' = 1
  /\ claim' = [urgency_score |-> CustomUrgency]
  /\ use_consensus' = TRUE
  /\ audience_level' = tier
  /\ UNCHANGED <<enable_consensus_mode, monitoring, gemini_response, openai_response,
                 gemini_result, openai_result, primary_verification,
                 secondary_verification, credibility_score, explainVars,
                 session, committed, error, mediaVars>>

\* await generate_explanation(claim, primary_verification, audience_level)
ExplainCustom(reply) ==
  /\ pc = "verified"
  /\ explanation_response' = reply
  /\ prompt_template' = TemplateFor(audience_level)
  /\ LET call == generate_explanation(primary_verification, audience_level, reply)
     IN IF call.raised
          THEN /\ pc' = "rolled_back"
               /\ error' = Error(call.exc, "generate_explanation")
               /\ UNCHANGED explanation
          ELSE /\ pc' = "explained"
               /\ explanation' = call.value
               /\ UNCHANGED error
  /\ UNCHANGED <<enable_consensus_mode, monitoring, extracted_claims, claim_index, claim,
                 use_consensus, gemini_response, openai_response, gemini_result,
                 openai_result, primary_verification, secondary_verification,
                 credibility_score, audience_level, session, committed,
                 mediaVars>>

\* calculate_credibility_score, then the Claim, Verification and Explanation
\* rows and db.commit()
PersistCustom ==
  /\ pc = "explained"
  /\ LET score == calculate_credibility_score(primary_verification)
     IN IF score.raised
          THEN /\ pc' = "rolled_back"
               /\ error' = Error(score.exc, "calculate_credibility_score")
               /\ UNCHANGED <<credibility_score, committed>>
          ELSE /\ pc' = "committed"
               /\ credibility_score' = score.value
               /\ committed' =
                    committed \o
                    <<ClaimRow(primary_verification, score.value),
                      VerificationRow(primary_verification),
                      ExplanationRow(explanation)>>
               /\ UNCHANGED error
  /\ UNCHANGED <<enable_consensus_mode, monitoring, extracted_claims, claim_index, claim,
                 use_consensus, gemini_response, openai_response, gemini_result,
                 openai_result, primary_verification, secondary_verification,
                 audience_level, explainVars, session, mediaVars>>

\* verification replies of the custom flow: every evidence shape on a
\* well-formed verdict, a second verdict, a null verdict, a null confidence,
\* and a failed call
CustomReplies ==
  {TransportError,
   ReplyText(<<Dict(VerdictObject(JStr("false"), JNum(1000), JStr("r"),
                                  <<LAbsent, LAbsent>>))>>),
   ReplyText(<<Dict(VerdictObject(JNull, JNum(500), JStr("r"),
                                  <<LAbsent, LAbsent>>))>>),
   ReplyText(<<Dict(VerdictObject(JStr("true"), JNull, JStr("r"),
                                  <<LAbsent, LAbsent>>))>>)}
  \cup {ReplyText(<<Dict(VerdictObject(JStr("true"), JNum(500), JStr("r"), e))>>) :
          e \in EvidenceValues}

NextCustom ==
  \/ \E tier \in TierValues : BeginCustomClaim(tier)
  \/ \E reply \in CustomReplies : VerifyGemini(reply)
  \/ \E reply \in CustomReplies : VerifyOpenai(reply)
  \/ \E reply \in ExplanationReplies : ExplainCustom(reply)
  \/ PersistCustom

SpecCustom == Init /\ [][NextCustom]_vars

(***************************************************************************)
(* api.py, deepfake endpoints: upload, analyze, and the background task    *)
(* run_deepfake_analysis.  The model follows one media record; the task of *)
(* an image runs without yielding, the task of a video yields while its    *)
(* frames are analysed.                                                    *)
(***************************************************************************)
ImageExtensions == {".jpg", ".jpeg", ".png"}
VideoExtensions == {".mp4", ".avi", ".mov", ".webm"}

\* POST /api/deepfake/upload: the 400 of an unsupported suffix is raised inside
\* the handler's try block and leaves it as a 500
UploadMedia(file_ext) ==
  /\ ~media.exists
  /\ IF file_ext \notin ImageExtensions \cup VideoExtensions
       THEN /\ http_response' = "500"
            /\ UNCHANGED media
       ELSE /\ media' = [NoMedia EXCEPT
                           !.exists = TRUE,
                           !.file_type = IF file_ext \in ImageExtensions
                                           THEN "image" ELSE "video",
                           !.analysis_status = "pending"]
            /\ http_response' = "uploaded"
  /\ UNCHANGED <<enable_consensus_mode, monitoring, verifyVars, image_analysis, key_frames, tasks>>

\* the arguments add_task binds, and where the task stands
\* frame_replies, frame_models and backends_called keep, per analysed frame,
\* what the backend answered, the model_name of the result and the backends
\* analyze_image invoked
Task(file_type, consensus) ==
  [pc |-> "scheduled", file_type |-> file_type, use_consensus |-> consensus,
   frames |-> 0, frame_results |-> <<>>, frame_replies |-> <<>>,
   frame_models |-> <<>>, backends_called |-> <<>>]

\* fault variant: the request does not look at the status
InProgress_never(record) == FALSE
\* media.analysis_status == 'analyzing'
InProgress(record) == record.analysis_status = "analyzing"

\* POST /api/deepfake/analyze/{media_id}
AnalyzeMedia(consensus) ==
  /\ IF ~media.exists
       THEN /\ http_response' = "404"
            /\ UNCHANGED <<media, tasks>>
       ELSE IF InProgress(media)
         THEN /\ http_response' = "already_analyzing"
              /\ UNCHANGED <<media, tasks>>
         ELSE /\ media' = [media EXCEPT !.analysis_status = "analyzing"]
              /\ tasks' = Append(tasks, Task(media.file_type, consensus))
              /\ http_response' = "analyzing"
  /\ UNCHANGED <<enable_consensus_mode, monitoring, verifyVars, image_analysis, key_frames>>

Without(xs, i) == SubSeq(xs, 1, i - 1) \o SubSeq(xs, i + 1, Len(xs))

\* the Boolean column is_deepfake binds None, True and False only
StoreAccepts(record) == record.is_deepfake.t \in {"null", "bool"}

\* db.commit() of the task's session: a value the column cannot bind makes the
\* flush raise and nothing is written; the session is not rolled back, so the
\* except branch cannot write either and the exception leaves the task
Commit(record, stored) == IF StoreAccepts(record) THEN record ELSE stored

\* the except branch of run_deepfake_analysis
Failed(record, exc) ==
  [record EXCEPT !.analysis_status = "failed",
                 !.analysis_report = RStr(<<"Analysis failed: ", exc>>)]

\* the image branch of run_deepfake_analysis: the assignments up to the one
\* that raises stay on the record the except branch commits
ImageOutcome(record, consensus, call) ==
  LET consensus_result == call.value[1]
      gemini_analysis == call.value[2]
      stored ==
        [record EXCEPT
           !.is_deepfake = consensus_result.is_deepfake,
           !.deepfake_confidence = consensus_result.confidence,
           !.consensus_verdict = consensus_result.verdict,
           !.artifacts_detected = consensus_result.artifacts_detected,
           !.metadata_analysis = LList(consensus_result.metadata_issues),
           !.analysis_report = consensus_result.reasoning,
           !.analysis_status = "completed",
           !.gemini_verdict = IF gemini_analysis # NoAnalysis
                                THEN gemini_analysis.verdict ELSE @,
           !.gemini_confidence = IF gemini_analysis # NoAnalysis
                                   THEN gemini_analysis.confidence ELSE @,
           !.openai_verdict =
              IF consensus /\ consensus_result.model_name = "consensus"
                THEN consensus_result.verdict ELSE @,
           !.openai_confidence =
              IF consensus /\ consensus_result.model_name = "consensus"
                THEN consensus_result.confidence ELSE @]
  IN IF call.raised THEN Failed(record, call.exc)
     ELSE IF consensus_result.artifacts_detected.t # "list"
       THEN Failed(stored, "TypeError")
     ELSE [stored EXCEPT !.model_used = consensus_result.model_name]

\* run_deepfake_analysis for an image
ImageTask(i, metadata_issues, gemini_reply, openai_reply) ==
  /\ i \in DOMAIN tasks
  /\ tasks[i].pc = "scheduled"
  /\ tasks[i].file_type = "image"
  \* the second backend answers only when it is called
  /\ (tasks[i].use_consensus /\ enable_consensus_mode) \/ openai_reply = TransportError
  /\ media' = Commit(ImageOutcome(media, tasks[i].use_consensus,
                       analyze_image(metadata_issues,
                                     tasks[i].use_consensus /\ enable_consensus_mode,
                                     gemini_reply, openai_reply)),
                     media)
  /\ tasks' = Without(tasks, i)
  /\ UNCHANGED <<enable_consensus_mode, monitoring, verifyVars, key_frames, http_response>>

RunImageAnalysis(i, metadata_issues, gemini_reply, openai_reply) ==
  /\ ImageTask(i, metadata_issues, gemini_reply, openai_reply)
  /\ UNCHANGED image_analysis

\* the video branch of run_deepfake_analysis once analyze_video returned
VideoOutcome(record, result) ==
  [record EXCEPT
     !.is_deepfake = result.is_deepfake,
     !.deepfake_confidence = result.confidence,
     !.consensus_verdict = Get(result.verdict, JStr("uncertain")),
     !.frame_analysis = result.frame_analysis,
     !.analysis_report =
        RStr(<<"Video analysis: ", ToString(result.frames_analyzed),
               " frames analyzed">>),
     !.analysis_status = "completed"]

\* analyze_video up to asyncio.gather: extract_key_frames returns up to
\* NumFrames frames; with none the task completes at once
ExtractFrames(i, frames) ==
  /\ i \in DOMAIN tasks
  /\ tasks[i].pc = "scheduled"
  /\ tasks[i].file_type = "video"
  /\ IF frames = 0
       THEN /\ media' = VideoOutcome(media,
                          [is_deepfake |-> JBool(FALSE), confidence |-> JNum(0),
                           verdict |-> JAbsent, frame_analysis |-> <<>>,
                           frames_analyzed |-> 0])
            /\ tasks' = Without(tasks, i)
       ELSE /\ tasks' = [tasks EXCEPT ![i].pc = "gather", ![i].frames = frames]
            /\ UNCHANGED media
  /\ UNCHANGED <<enable_consensus_mode, monitoring, verifyVars, image_analysis, key_frames, http_response>>

\* one of the gathered analyze_image(frame_path, use_consensus=False) calls.
\* No backend call awaits, so the gathered calls run one after the other in
\* frame order, each to its end; requests are served between them.
AnalyzeFrame(i, metadata_issues, reply) ==
  /\ i \in DOMAIN tasks
  /\ tasks[i].pc = "gather"
  /\ Len(tasks[i].frame_results) < tasks[i].frames
  /\ LET consensus == FrameConsensus /\ enable_consensus_mode
         call == analyze_image(metadata_issues, consensus, reply, reply)
         \* a raising call ends analyze_video; it needs two backends
         result == IF call.raised THEN ErrorAnalysis("none", call.exc)
                   ELSE call.value[1]
     IN tasks' =
          [tasks EXCEPT ![i].frame_results = Append(@, FrameResult(result)),
                        ![i].frame_replies = Append(@, reply),
                        ![i].frame_models = Append(@, result.model_name),
                        ![i].backends_called = @ \o BackendsCalled(consensus)]
  /\ UNCHANGED <<enable_consensus_mode, monitoring, verifyVars, image_analysis, key_frames, media, http_response>>

\* a join that resumes when the first analysis is done
Gathered_first(task) == Len(task.frame_results) >= 1
\* await asyncio.gather(*tasks) resumes once every gathered call has returned
Gathered(task) == Len(task.frame_results) = task.frames

\* analyze_video after the gather, and the rest of the video branch
FinishVideo(i) ==
  /\ i \in DOMAIN tasks
  /\ tasks[i].pc = "gather"
  /\ Gathered(tasks[i])
  /\ LET result == aggregate_video(tasks[i].frame_results)
     IN media' = IF result.raised THEN Failed(media, result.exc)
                 ELSE VideoOutcome(media, result.value)
  /\ tasks' = Without(tasks, i)
  /\ UNCHANGED <<enable_consensus_mode, monitoring, verifyVars, image_analysis, key_frames, http_response>>

NextMedia ==
  \/ \E file_ext \in Extensions : UploadMedia(file_ext)
  \/ \E consensus \in BOOLEAN : AnalyzeMedia(consensus)
  \/ \E i \in 1..Len(tasks), metadata_issues \in MetadataValues,
        gemini_reply \in VisionReplies :
       \E openai_reply \in IF tasks[i].use_consensus /\ enable_consensus_mode
                              THEN VisionReplies ELSE {TransportError} :
         RunImageAnalysis(i, metadata_issues, gemini_reply, openai_reply)
  \/ \E i \in 1..Len(tasks), frames \in 0..NumFrames : ExtractFrames(i, frames)
  \/ \E i \in 1..Len(tasks), metadata_issues \in MetadataValues,
        reply \in FrameReplies :
       AnalyzeFrame(i, metadata_issues, reply)
  \/ \E i \in 1..Len(tasks) : FinishVideo(i)

SpecMedia == Init /\ [][NextMedia]_vars

(***************************************************************************)
(* deepfake_detector.py: DeepfakeDetector.analyze_image called on its own  *)
(***************************************************************************)
\* one call of analyze_image: its arguments, what each backend returned and
\* what the call returned
ImageCall(consensus, metadata_issues, gemini_reply, openai_reply) ==
  LET both == consensus /\ enable_consensus_mode
      call == analyze_image(metadata_issues, both, gemini_reply, openai_reply)
  IN [called |-> TRUE, use_consensus |-> consensus,
      metadata_issues |-> metadata_issues,
      gemini |-> [analyze_with_gemini(gemini_reply).value
                    EXCEPT !.metadata_issues = metadata_issues],
      openai |-> IF both
                   THEN [analyze_with_openai(openai_reply).value
                           EXCEPT !.metadata_issues = metadata_issues]
                   ELSE NoAnalysis,
      raised |-> call.raised,
      primary |-> call.value[1], secondary |-> call.value[2]]

AnalyzeImage(consensus, metadata_issues, gemini_reply, openai_reply) ==
  /\ ~image_analysis.called
  \* the second backend answers only when it is called
  /\ (consensus /\ enable_consensus_mode) \/ openai_reply = TransportError
  /\ image_analysis' =
       ImageCall(consensus, metadata_issues, gemini_reply, openai_reply)
  /\ UNCHANGED <<enable_consensus_mode, monitoring, verifyVars, media, tasks, http_response,
                 key_frames>>

NextImage ==
  \E consensus \in BOOLEAN, metadata_issues \in MetadataValues,
     gemini_reply \in VisionReplies, openai_reply \in VisionReplies :
    AnalyzeImage(consensus, metadata_issues, gemini_reply, openai_reply)

SpecImage == Init /\ [][NextImage]_vars

(***************************************************************************)
(* agent.py: start_monitoring and stop_monitoring.  The loop is at "test"  *)
(* before it evaluates is_running, at "cycle" while run_detection_cycle    *)
(* runs, at "sleep" or "error_sleep" while it waits, "returned" when the   *)
(* coroutine has ended.  run_detection_cycle ends by returning its stats   *)
(* or by re-raising.                                                       *)
(***************************************************************************)
otherVars == <<enable_consensus_mode, verifyVars, mediaVars>>

\* start_monitoring called: the flag is set before the loop is entered
StartMonitoring ==
  /\ monitoring.pc \in {"idle", "returned"}
  /\ monitoring' = [monitoring EXCEPT !.is_running = TRUE, !.pc = "test",
                                      !.stopped = FALSE]
  /\ UNCHANGED otherVars

\* fault variant: while True
LoopContinues_always(m) == TRUE
\* while self.is_running
LoopContinues(m) == m.is_running

\* the loop condition: another cycle is started, or the coroutine returns
TestRunning ==
  /\ monitoring.pc = "test"
  /\ IF LoopContinues(monitoring)
       THEN /\ monitoring.cycles < MaxCycles
            /\ monitoring' = [monitoring EXCEPT !.pc = "cycle", !.cycles = @ + 1]
       ELSE monitoring' = [monitoring EXCEPT !.pc = "returned"]
  /\ UNCHANGED otherVars

\* await run_detection_cycle() returned; the loop sleeps monitoring_interval
CycleReturns ==
  /\ monitoring.pc = "cycle"
  /\ monitoring' = [monitoring EXCEPT !.pc = "sleep"]
  /\ UNCHANGED otherVars

\* await run_detection_cycle() raised; the handler logs and sleeps a minute
CycleRaises ==
  /\ monitoring.pc = "cycle"
  /\ monitoring' = [monitoring EXCEPT !.pc = "error_sleep", !.failures = @ + 1]
  /\ UNCHANGED otherVars

\* asyncio.sleep is over; the loop is back at its condition
Wake ==
  /\ monitoring.pc \in {"sleep", "error_sleep"}
  /\ monitoring' = [monitoring EXCEPT !.pc = "test"]
  /\ UNCHANGED otherVars

\* stop_monitoring called, at any time
StopMonitoring ==
  /\ monitoring' = [monitoring EXCEPT !.is_running = FALSE, !.stopped = TRUE]
  /\ UNCHANGED otherVars

NextMonitoring ==
  \/ StartMonitoring
  \/ TestRunning
  \/ CycleReturns
  \/ CycleRaises
  \/ Wake
  \/ StopMonitoring

\* the event loop resumes a coroutine that can run: the condition is
\* evaluated, a sleep ends, and a detection cycle ends one way or the other
SpecMonitoring ==
  /\ Init /\ [][NextMonitoring]_vars
  /\ WF_vars(TestRunning)
  /\ WF_vars(Wake)
  /\ WF_vars(CycleReturns \/ CycleRaises)

(***************************************************************************)
(* Both consensus functions on well-formed answers whose confidences are   *)
(* equal or differ: verify_claim of a custom claim, and analyze_image      *)
(***************************************************************************)
TieReplies ==
  {ReplyText(<<Dict(VerdictObject(JStr(v), JNum(c), JStr("r"), <<LAbsent, LAbsent>>))>>) :
     v \in {"true", "false"}, c \in {500, 900}}
VisionTieReplies ==
  {ReplyText(<<Dict(VisionObject(JStr("fake"), JNum(c), JBool(TRUE), LList(<<>>)))>>) :
     c \in {600, 900}}
  \cup {ReplyText(<<Dict(VisionObject(JStr("real"), JNum(c), JBool(FALSE), LList(<<>>)))>>) :
          c \in {600, 900}}

NextConsensus ==
  \/ BeginCustomClaim("general")
  \/ \E reply \in TieReplies : VerifyGemini(reply)
  \/ \E reply \in TieReplies : VerifyOpenai(reply)
  \/ \E gemini_reply \in VisionTieReplies, openai_reply \in VisionTieReplies :
       AnalyzeImage(TRUE, <<>>, gemini_reply, openai_reply)

SpecConsensus == Init /\ [][NextConsensus]_vars

(***************************************************************************)
(* api.py: the first analysis of an uploaded image, with the analyze_image  *)
(* call the background task makes kept in image_analysis                   *)
(***************************************************************************)
RunFirstImageAnalysis(i, metadata_issues, gemini_reply, openai_reply) ==
  /\ ~image_analysis.called
  /\ ImageTask(i, metadata_issues, gemini_reply, openai_reply)
  /\ image_analysis' =
       ImageCall(tasks[i].use_consensus, metadata_issues, gemini_reply, openai_reply)

NextImageTask ==
  \/ \E file_ext \in Extensions : UploadMedia(file_ext)
  \/ \E consensus \in BOOLEAN : AnalyzeMedia(consensus)
  \/ \E i \in 1..Len(tasks), metadata_issues \in MetadataValues,
        gemini_reply \in VisionReplies :
       \E openai_reply \in IF tasks[i].use_consensus /\ enable_consensus_mode
                              THEN VisionReplies ELSE {TransportError} :
         RunFirstImageAnalysis(i, metadata_issues, gemini_reply, openai_reply)

SpecImageTask == Init /\ [][NextImageTask]_vars

(***************************************************************************)
(* deepfake_detector.py: VideoDeepfakeDetector.extract_key_frames called   *)
(* on a video of total_frames frames                                       *)
(***************************************************************************)
ExtractKeyFrames(total_frames, num_frames) ==
  /\ ~key_frames.called
  /\ key_frames' = [called |-> TRUE, total_frames |-> total_frames,
                    num_frames |-> num_frames,
                    indices |-> frame_indices(total_frames, num_frames)]
  /\ UNCHANGED <<enable_consensus_mode, monitoring, verifyVars, media, tasks, http_response,
                 image_analysis>>

NextFrames ==
  \E total_frames \in 1..MaxTotalFrames, num_frames \in 1..MaxNumFrames :
    ExtractKeyFrames(total_frames, num_frames)

SpecFrames == Init /\ [][NextFrames]_vars

(***************************************************************************)
(* Properties                                                              *)
(***************************************************************************)
\* a result whose fields have the documented types: a string verdict and a
\* numeric confidence (of any value)
WellTyped(r) == r.verdict.t = "str" /\ r.confidence.t = "num"
LargerOf(a, b) == IF a >= b THEN a ELSE b
\* _create_consensus has been called on gemini_result and openai_result
ConsensusCalled == openai_result # NoResult
ConsensusReturned ==
  /\ error.origin # "_create_consensus"
  /\ primary_verification.model_name = "consensus"
Verdicts == {"true", "false", "mixed", "unverifiable"}

\* C1: when the two results carry the same verdict, _create_consensus returns
\* that verdict with the larger of the two confidences.
C1_AgreementTakesMaxConfidence ==
  (/\ ConsensusCalled
   /\ WellTyped(gemini_result) /\ WellTyped(openai_result)
   /\ gemini_result.verdict = openai_result.verdict)
  => /\ ConsensusReturned
     /\ primary_verification.verdict = gemini_result.verdict
     /\ primary_verification.confidence =
          JNum(LargerOf(gemini_result.confidence.n, openai_result.confidence.n))

\* C1 witness: two agreeing results, the second one the more confident
C1_Witness ==
  /\ ConsensusCalled /\ ConsensusReturned
  /\ WellTyped(gemini_result) /\ WellTyped(openai_result)
  /\ gemini_result.verdict = openai_result.verdict
  /\ gemini_result.confidence.n < openai_result.confidence.n

\* C2: when the two results carry different verdicts, _create_consensus returns
\* 0.8 times the larger confidence and the verdict of the more confident result.
C2_DisagreementPenalizesMaxConfidence ==
  (/\ ConsensusCalled
   /\ WellTyped(gemini_result) /\ WellTyped(openai_result)
   /\ gemini_result.verdict # openai_result.verdict)
  => /\ ConsensusReturned
     /\ primary_verification.confidence.t = "num"
     /\ 10 * primary_verification.confidence.n =
          8 * LargerOf(gemini_result.confidence.n, openai_result.confidence.n)
     /\ gemini_result.confidence.n > openai_result.confidence.n
          => primary_verification.verdict = gemini_result.verdict
     /\ openai_result.confidence.n > gemini_result.confidence.n
          => primary_verification.verdict = openai_result.verdict

\* C2 witness: two disagreeing results, the first one the more confident
C2_Witness ==
  /\ ConsensusCalled /\ ConsensusReturned
  /\ WellTyped(gemini_result) /\ WellTyped(openai_result)
  /\ gemini_result.verdict # openai_result.verdict
  /\ gemini_result.confidence.n > openai_result.confidence.n
  /\ gemini_result.confidence.n > 0

\* replies that carry no JSON object a backend can decode: no reply at all,
\* prose, an empty text, prose around an unfenced document, a JSON document
\* that is not an object
UndecodableTexts ==
  {<<Prose>>, <<>>, <<Prose, Dict(SampleObject)>>} \cup Wrappings(NonDict)
\* verify_with_openai does not unwrap code fences
FencedTexts == Wrappings(Dict(SampleObject)) \ {<<Dict(SampleObject)>>}
Undecodable(reply, texts) == reply.failed \/ reply.text \in texts
IsErrorResult(r, model) ==
  /\ r.verdict = JStr("unverifiable")
  /\ r.confidence = JNum(0)
  /\ r.supporting_sources = <<>>
  /\ r.contradicting_sources = <<>>
  /\ r.reasoning.t = "str"
  /\ Len(r.reasoning.parts) = 2
  /\ r.reasoning.parts[1] = "Error during verification: "
  /\ r.reasoning.parts[2] \in
       {"TransportError", "JSONDecodeError", "AttributeError", "TypeError"}
  /\ r.model_name = model

\* C3: verify_with_gemini and verify_with_openai never raise, and a transport
\* error or an undecodable reply yields verdict 'unverifiable', confidence 0.0,
\* empty evidence lists and the error description in the reasoning.
C3_BackendErrorsBecomeUnverifiable ==
  /\ error.origin \notin {"verify_with_gemini", "verify_with_openai"}
  /\ (gemini_response # NoResponse /\ Undecodable(gemini_response, UndecodableTexts))
       => IsErrorResult(gemini_result, "gemini")
  /\ (openai_response # NoResponse
      /\ Undecodable(openai_response, UndecodableTexts \cup FencedTexts))
       => IsErrorResult(openai_result, "openai")

\* C3 witness: the second backend got a fenced reply it cannot decode, after the
\* first backend's transport failed
C3_Witness ==
  /\ gemini_response = TransportError
  /\ openai_response # NoResponse /\ openai_response.text \in FencedTexts
  /\ IsErrorResult(gemini_result, "gemini")
  /\ IsErrorResult(openai_result, "openai")

\* C4: verify_claim never propagates an exception to its caller, in
\* single-backend mode and in consensus mode, whatever the backends reply.
C4_VerifyClaimNeverRaises ==
  error.origin \notin {"verify_with_gemini", "verify_with_openai", "_create_consensus"}

\* the claim's reference formula, in hundredths
ReferenceBase(verdict) ==
  IF verdict = JStr("true") THEN 9
  ELSE IF verdict = JStr("false") THEN 1
  ELSE IF verdict = JStr("mixed") THEN 5
  ELSE IF verdict = JStr("unverifiable") THEN 3
  ELSE 5
ReferenceScore(verdict, confidence, supporting, contradicting) ==
  LET m == ReferenceBase(verdict) * confidence
  IN IF supporting + contradicting > 0
       THEN Round2(m * (supporting + contradicting) + 10000 * supporting,
                   20000 * (supporting + contradicting))
       ELSE Round2(m, 10000)
ResultOf(verdict, confidence, supporting, contradicting) ==
  VerificationResult(JStr(verdict), JNum(confidence), RStr(<<"r">>),
                     ToSources(Evidence(supporting)),
                     ToSources(Evidence(contradicting)), "gemini")

C6_ScoreInUnitInterval ==
  /\ error.origin # "calculate_credibility_score"
  /\ pc \in {"explain", "committed"} => credibility_score \in 0..100

\* every result the verification pipeline holds
ResultsProduced ==
  {gemini_result, openai_result, primary_verification, secondary_verification}
    \ {NoResult}

\* a confidence that is a number between 0.0 and 1.0
InUnitInterval(v) == IsNumber(v) /\ v.n >= 0 /\ v.n <= 1000

\* C7: every VerificationResult and every DeepfakeAnalysisResult the system
\* produces carries a confidence in [0, 1]: the results verify_claim holds, the
\* per-frame results of a video task, and the result an image task stored.
C7_ConfidenceInUnitInterval ==
  /\ \A r \in ResultsProduced : InUnitInterval(r.confidence)
  /\ \A i \in DOMAIN tasks : \A k \in DOMAIN tasks[i].frame_results :
       InUnitInterval(tasks[i].frame_results[k].confidence)
  /\ (media.analysis_status = "completed" /\ media.file_type = "image")
       => InUnitInterval(media.deepfake_confidence)

\* the rows whose verdict column the claim is about
VerdictRows(rows) ==
  {rows[i] : i \in {j \in DOMAIN rows : rows[j].table \in {"claims", "verifications"}}}

\* C8: every VerificationResult has a verdict among true, false, mixed and
\* unverifiable, and so has every claim row and verification row, staged or
\* committed.
C8_VerdictInEnumeration ==
  /\ \A r \in ResultsProduced : r.verdict.t = "str" /\ r.verdict.s \in Verdicts
  /\ \A row \in VerdictRows(session) \cup VerdictRows(committed) :
       row.verdict.t = "str" /\ row.verdict.s \in Verdicts

\* C9: once a media record's analysis_status is completed or failed, no step
\* changes it, a further analyze request included.
C9_FinalStatusIsTerminal ==
  [][media.analysis_status \in {"completed", "failed"}
       => media'.analysis_status = media.analysis_status]_vars

\* C10: a media record whose analysis_status is completed has a non-null
\* consensus_verdict.
C10_CompletedHasVerdict ==
  (media.exists /\ media.analysis_status = "completed")
    => media.consensus_verdict.t = "str"

\* the detection cycle has ended, by its commit or by an exception
CycleEnded == pc \in {"committed", "rolled_back"}
\* claims whose row is committed
ClaimsPersisted ==
  Cardinality({i \in DOMAIN committed : committed[i].table = "claims"})

\* C11: an error while one claim is processed does not abort the batch: when
\* the cycle has ended every extracted claim has had its turn, and every claim
\* other than the failing one is persisted.
C11_ErrorDoesNotAbortBatch ==
  CycleEnded =>
    /\ claim_index = Len(extracted_claims)
    /\ ClaimsPersisted = claim_index - (IF error # NoError THEN 1 ELSE 0)

\* C12: run_deepfake_analysis never finishes leaving the record in
\* 'analyzing': a record in that status has its background task still ahead or
\* under way, which fair scheduling takes to 'completed' or 'failed'.
C12_TaskNeverLeavesAnalyzing ==
  (media.exists /\ media.analysis_status = "analyzing") => tasks # <<>>

\* explanation replies that carry no JSON object
UnparseableExplanations ==
  {TransportError, ReplyText(<<Prose>>), ReplyText(<<NonDict>>)}
\* generate_explanation has been called and has returned
Explained == explanation_response # NoResponse /\ error.origin # "generate_explanation"
\* the fallback Explanation as the claim describes it
IsFallback(e, verification) ==
  /\ e.title = RStr(<<"Claim Verification: ", Upper(verification.verdict.s)>>)
  /\ e.summary.t = "str"
  /\ Len(e.summary.parts) = 6
  /\ e.summary.parts[1] = "This claim has been assessed as "
  /\ e.summary.parts[2] = verification.verdict.s
  /\ e.summary.parts[4] = ToString(verification.confidence.n \div 10)
  /\ e.summary.parts[5] = "%"
  /\ e.detailed_explanation = verification.reasoning
  /\ e.citations = <<>>
  /\ e.what_to_do =
       RStr(<<"Verify information from multiple credible sources before sharing.">>)
  /\ e.what_to_avoid =
       RStr(<<"Avoid sharing unverified claims during crisis situations.">>)

\* C13: generate_explanation never raises, and on a backend error or an
\* unparseable reply it returns the fallback Explanation, for every result
\* verification produces.
C13_ExplanationNeverRaises ==
  /\ error.origin # "generate_explanation"
  /\ (Explained /\ explanation_response \in UnparseableExplanations)
       => IsFallback(explanation, primary_verification)

\* C14: the Explanation's audience_level, and the template formatted, is the
\* requested tier when it is simple, general or expert, and 'general' otherwise.
C14_UnknownTierFallsBackToGeneral ==
  Explained =>
    /\ audience_level \in {"simple", "general", "expert"}
         => /\ explanation.audience_level = audience_level
            /\ prompt_template = audience_level
    /\ audience_level \notin {"simple", "general", "expert"}
         => /\ explanation.audience_level = "general"
            /\ prompt_template = "general"

\* C14 witness: the fallback path taken for a tier that has no template
C14_Witness ==
  /\ Explained
  /\ audience_level = "kids"
  /\ explanation_response = TransportError
  /\ explanation.audience_level = "general"

\* the first n entries of a list
FirstN(xs, n) == [i \in 1..(IF Len(xs) < n THEN Len(xs) ELSE n) |-> xs[i]]
\* the reply was decoded and rendered
Rendered == Explained /\ explanation_response \notin UnparseableExplanations

\* C15: on a successful render the citations are the first min(3, n) of the
\* verification's n supporting sources, in order, each tagged 'supporting'.
C15_CitationsAreFirstThreeSupporting ==
  Rendered =>
    LET sources == FirstN(primary_verification.supporting_sources, 3)
    IN /\ Len(explanation.citations) = Len(sources)
       /\ \A i \in DOMAIN sources :
            /\ explanation.citations[i].text = sources[i].text
            /\ explanation.citations[i].source = sources[i].source
            /\ explanation.citations[i].type = "supporting"

\* C15 witness: a consensus result with more than three supporting sources and
\* other contradicting ones, rendered
C15_Witness ==
  /\ Rendered
  /\ Len(primary_verification.supporting_sources) > 3
  /\ primary_verification.contradicting_sources # <<>>
  /\ Len(explanation.citations) = 3

\* xs followed by ys, entry by entry
IsConcatenation(zs, xs, ys) ==
  /\ Len(zs) = Len(xs) + Len(ys)
  /\ \A i \in DOMAIN xs : zs[i] = xs[i]
  /\ \A i \in DOMAIN ys : zs[Len(xs) + i] = ys[i]

\* C17: the result of _create_consensus carries the first input's supporting
\* (contradicting) list followed by the second input's, nothing removed, and
\* the backend identifier 'consensus', with equal and with different verdicts.
C17_ConsensusConcatenatesEvidence ==
  (ConsensusCalled /\ error.origin # "_create_consensus") =>
    /\ IsConcatenation(primary_verification.supporting_sources,
                       gemini_result.supporting_sources,
                       openai_result.supporting_sources)
    /\ IsConcatenation(primary_verification.contradicting_sources,
                       gemini_result.contradicting_sources,
                       openai_result.contradicting_sources)
    /\ primary_verification.model_name = "consensus"

\* C17 witness: disagreeing results whose supporting lists share entries
C17_Witness ==
  /\ ConsensusCalled /\ ConsensusReturned
  /\ gemini_result.verdict # openai_result.verdict
  /\ Len(gemini_result.supporting_sources) = 3
  /\ Len(openai_result.supporting_sources) = 2
  /\ Len(primary_verification.supporting_sources) = 5
  /\ primary_verification.supporting_sources[4] = gemini_result.supporting_sources[1]

\* verify_claim has returned to its caller
VerifyClaimReturned ==
  \/ pc \in {"verified", "explain", "explained", "committed"}
  \/ error.origin \in {"calculate_credibility_score", "generate_explanation"}
\* use_consensus, the setting, and an urgency strictly above 0.6
ConsensusRequested ==
  use_consensus /\ enable_consensus_mode /\ claim.urgency_score > 600

ImageConsensusReturned ==
  /\ image_analysis.called /\ ~image_analysis.raised
  /\ image_analysis.use_consensus /\ enable_consensus_mode

\* C19: in consensus mode the image result's artifact list is Gemini's
\* followed by OpenAI's, its metadata-issue list likewise, nothing removed;
\* verdict and confidence follow the rule of claim consensus: the common
\* verdict with the larger confidence, or the more confident verdict with 0.8
\* times the larger confidence.
C19_ImageConsensusMergesLists ==
  ImageConsensusReturned =>
    LET g == image_analysis.gemini
        o == image_analysis.openai
        r == image_analysis.primary
    IN /\ r.artifacts_detected.t = "list"
       /\ IsConcatenation(r.artifacts_detected.l, g.artifacts_detected.l,
                          o.artifacts_detected.l)
       /\ IsConcatenation(r.metadata_issues, g.metadata_issues, o.metadata_issues)
       /\ image_analysis.secondary = g
       /\ (WellTyped(g) /\ WellTyped(o) /\ g.verdict = o.verdict)
            => /\ r.verdict = g.verdict
               /\ r.confidence = JNum(LargerOf(g.confidence.n, o.confidence.n))
       /\ (WellTyped(g) /\ WellTyped(o) /\ g.verdict # o.verdict)
            => /\ r.confidence.t = "num"
               /\ 10 * r.confidence.n = 8 * LargerOf(g.confidence.n, o.confidence.n)
               /\ g.confidence.n > o.confidence.n => r.verdict = g.verdict
               /\ o.confidence.n > g.confidence.n => r.verdict = o.verdict

\* C19 witness: disagreeing backends, each with an artifact, on an image
\* with a metadata issue
C19_Witness ==
  /\ ImageConsensusReturned
  /\ image_analysis.gemini.verdict # image_analysis.openai.verdict
  /\ image_analysis.gemini.artifacts_detected.l # <<>>
  /\ image_analysis.openai.artifacts_detected.l # <<>>
  /\ image_analysis.gemini.confidence.n > image_analysis.openai.confidence.n
  /\ Len(image_analysis.primary.artifacts_detected.l) = 2
  /\ Len(image_analysis.primary.metadata_issues) = 2

\* extract_key_frames was asked for at least two frames
FramesSelected == key_frames.called /\ key_frames.num_frames >= 2
\* the properties of the selection that do not depend on the rounding
EvenlySpread(indices, total) ==
  /\ indices[1] = 0
  /\ indices[Len(indices)] = total - 1
  /\ \A k \in 1..(Len(indices) - 1) : indices[k] <= indices[k + 1]

\* C20 as stated: the k-th index is (k-1) * (total_frames - 1) / (N - 1) rounded
\* to the nearest integer (a half either way); the sequence is non-decreasing,
\* starts at 0, ends at total_frames - 1, and is [0, 49 or 50, 99] for N = 3
\* over 100 frames.
C20_IndicesAreRounded ==
  FramesSelected =>
    LET den == key_frames.num_frames - 1
        num(k) == (k - 1) * (key_frames.total_frames - 1)
    IN /\ \A k \in 1..key_frames.num_frames :
            /\ 2 * den * key_frames.indices[k] >= 2 * num(k) - den
            /\ 2 * den * key_frames.indices[k] <= 2 * num(k) + den
       /\ EvenlySpread(key_frames.indices, key_frames.total_frames)
       /\ (key_frames.num_frames = 3 /\ key_frames.total_frames = 100)
            => key_frames.indices \in {<<0, 49, 99>>, <<0, 50, 99>>}

\* C20 amended: the k-th index is (k-1) * (total_frames - 1) / (N - 1) with its
\* fraction cut off; the sequence is non-decreasing, starts at 0, ends at
\* total_frames - 1, and is [0, 49, 99] for N = 3 over 100 frames.
C20_IndicesAreTruncated ==
  FramesSelected =>
    LET den == key_frames.num_frames - 1
        num(k) == (k - 1) * (key_frames.total_frames - 1)
    IN /\ \A k \in 1..key_frames.num_frames :
            /\ den * key_frames.indices[k] <= num(k)
            /\ den * (key_frames.indices[k] + 1) > num(k)
       /\ EvenlySpread(key_frames.indices, key_frames.total_frames)
       /\ (key_frames.num_frames = 3 /\ key_frames.total_frames = 100)
            => key_frames.indices = <<0, 49, 99>>

\* C20 witness: five frames of a 100-frame video, the second sample 24.75
C20_Witness ==
  /\ key_frames.called
  /\ key_frames.num_frames = 5 /\ key_frames.total_frames = 100
  /\ key_frames.indices = <<0, 24, 49, 74, 99>>

\* the video task completed over at least one analyzed frame
VideoReported ==
  /\ media.file_type = "video" /\ media.analysis_status = "completed"
  /\ media.frame_analysis # <<>>
\* analyzed frames the backend judged deepfake
JudgedDeepfake(frame_analysis) ==
  {k \in 1..Len(frame_analysis) : frame_analysis[k].is_deepfake = JBool(TRUE)}

\* C21: a video analysed over at least one frame is reported is_deepfake exactly
\* when the frames judged deepfake are at least half of the analyzed frames, and
\* its verdict is 'fake' exactly when is_deepfake is true and 'real' otherwise.
C21_MajorityVoteAtLeastHalf ==
  VideoReported =>
    LET judged == Cardinality(JudgedDeepfake(media.frame_analysis))
        atLeastHalf == 2 * judged >= Len(media.frame_analysis)
    IN /\ media.is_deepfake = JBool(atLeastHalf)
       /\ media.consensus_verdict = JStr(IF atLeastHalf THEN "fake" ELSE "real")

\* C21 witness: one of two analyzed frames judged deepfake, reported as fake
C21_Witness ==
  /\ VideoReported
  /\ Len(media.frame_analysis) = 2
  /\ Cardinality(JudgedDeepfake(media.frame_analysis)) = 1
  /\ media.is_deepfake = JBool(TRUE)
  /\ media.consensus_verdict = JStr("fake")

\* the video tasks in flight
VideoTasks == {i \in DOMAIN tasks : tasks[i].file_type = "video"}

\* C22: while a video is analysed every frame is analysed by Gemini alone: one
\* backend call per analysed frame, none to the second backend, and no frame
\* result is a consensus, whatever the consensus setting and the request say.
C22_FramesUseOneBackend ==
  \A i \in VideoTasks :
    /\ Len(tasks[i].backends_called) = Len(tasks[i].frame_results)
    /\ \A k \in 1..Len(tasks[i].backends_called) :
         tasks[i].backends_called[k] = "gemini-vision"
    /\ \A k \in 1..Len(tasks[i].frame_models) :
         tasks[i].frame_models[k] = "gemini-vision"

\* C22 witness: consensus enabled in settings and asked for by the request, and
\* all three frames of the video analysed
C22_Witness ==
  \E i \in VideoTasks :
    /\ enable_consensus_mode /\ tasks[i].use_consensus
    /\ tasks[i].frames = NumFrames
    /\ Len(tasks[i].frame_results) = NumFrames

\* the backend call for a frame failed
FrameCallFailed(reply) ==
  reply.failed \/ Len(reply.text) # 1 \/ reply.text[1].k # "dict"
\* the frame_analysis entry the claim expects for a backend answer
EntryMatches(entry, reply) ==
  IF FrameCallFailed(reply)
    THEN entry.is_deepfake = JBool(FALSE) /\ entry.confidence = JNum(0)
    ELSE /\ entry.is_deepfake = reply.text[1].obj.is_deepfake
         /\ entry.confidence = reply.text[1].obj.confidence
         /\ entry.verdict = reply.text[1].obj.verdict

\* C23: when analyze_video returns its report, every per-frame analysis it
\* started has finished, and frame_analysis has one entry per extracted frame,
\* in frame order, a failed backend call giving is_deepfake false, confidence 0.
C23_AggregatesAfterEveryFrame ==
  [][(/\ Len(tasks) = 1 /\ tasks[1].file_type = "video" /\ tasks[1].frames > 0
      /\ tasks' = <<>> /\ media'.analysis_status = "completed")
     => /\ Len(tasks[1].frame_replies) = tasks[1].frames
        /\ Len(media'.frame_analysis) = tasks[1].frames
        /\ \A k \in 1..tasks[1].frames :
             EntryMatches(media'.frame_analysis[k], tasks[1].frame_replies[k])]_vars

\* C23 witness: three frames reported, the call for the second one failed
C23_Witness ==
  /\ VideoReported
  /\ Len(media.frame_analysis) = NumFrames
  /\ media.frame_analysis[1].is_deepfake = JBool(TRUE)
  /\ media.frame_analysis[2] =
       [is_deepfake |-> JBool(FALSE), confidence |-> JNum(0),
        verdict |-> JStr("uncertain")]
  /\ media.frame_analysis[3].verdict = JStr("real")

\* a reply text that is a structured payload, bare or wrapped in code fences
IsPayloadReply(reply) ==
  /\ ~reply.failed
  /\ \/ Len(reply.text) = 1 /\ reply.text[1].k = "dict"
     \/ /\ Len(reply.text) = 3
        /\ IsFence(reply.text[1]) /\ reply.text[2].k = "dict"
        /\ reply.text[3] = Fence

\* C24: both backends given the same reply text (a payload, bare or in code
\* fences, with or without its optional fields) return the same verdict,
\* confidence, reasoning and evidence lists; only model_name differs.
C24_BackendsInterchangeable ==
  (/\ ConsensusCalled
   /\ gemini_response = openai_response
   /\ IsPayloadReply(gemini_response))
  => /\ gemini_result.verdict = openai_result.verdict
     /\ gemini_result.confidence = openai_result.confidence
     /\ gemini_result.reasoning = openai_result.reasoning
     /\ gemini_result.supporting_sources = openai_result.supporting_sources
     /\ gemini_result.contradicting_sources = openai_result.contradicting_sources

\* the background task analysed the image with both backends and stored it
ConsensusStored ==
  /\ image_analysis.called /\ ~image_analysis.raised
  /\ image_analysis.use_consensus /\ enable_consensus_mode
  /\ media.analysis_status = "completed"

\* C25: after an image analysis in consensus mode the record's gemini_* fields
\* hold what the Gemini backend returned and its openai_* fields what the
\* OpenAI backend returned, also when the two disagree.
C25_BackendFieldsHoldOwnOutput ==
  ConsensusStored =>
    /\ media.gemini_verdict = image_analysis.gemini.verdict
    /\ media.gemini_confidence = image_analysis.gemini.confidence
    /\ media.openai_verdict = image_analysis.openai.verdict
    /\ media.openai_confidence = image_analysis.openai.confidence

\* the verdict and confidence the claim gives a disagreement of results g and
\* o: the second one's unless the first is strictly more confident, with 0.8
\* times the winner's confidence
SecondUnlessFirstGreater(r, g, o) ==
  LET winner == IF g.confidence.n > o.confidence.n THEN g ELSE o
  IN /\ r.verdict = winner.verdict
     /\ r.confidence.t = "num"
     /\ 10 * r.confidence.n = 8 * winner.confidence.n

\* C26: when the backends disagree with equal confidence, claim consensus and
\* image consensus both take the second backend's verdict (image consensus its
\* is_deepfake flag too) with 0.8 times the common confidence; the first
\* backend's verdict is taken only when its confidence is strictly greater.
C26_TieGoesToSecondBackend ==
  /\ (/\ ConsensusCalled
      /\ WellTyped(gemini_result) /\ WellTyped(openai_result)
      /\ gemini_result.verdict # openai_result.verdict)
     => /\ ConsensusReturned
        /\ SecondUnlessFirstGreater(primary_verification, gemini_result,
                                    openai_result)
  /\ (/\ ImageConsensusReturned
      /\ WellTyped(image_analysis.gemini) /\ WellTyped(image_analysis.openai)
      /\ image_analysis.gemini.verdict # image_analysis.openai.verdict)
     => /\ SecondUnlessFirstGreater(image_analysis.primary, image_analysis.gemini,
                                    image_analysis.openai)
        /\ image_analysis.primary.is_deepfake =
             IF image_analysis.gemini.confidence.n > image_analysis.openai.confidence.n
               THEN image_analysis.gemini.is_deepfake
               ELSE image_analysis.openai.is_deepfake

\* C26 witness: a claim and an image, each judged differently by the two
\* backends with the same confidence, and the second backend's verdict taken
C26_Witness ==
  /\ ConsensusCalled /\ ConsensusReturned
  /\ gemini_result.verdict = JStr("true") /\ openai_result.verdict = JStr("false")
  /\ gemini_result.confidence = JNum(900) /\ openai_result.confidence = JNum(900)
  /\ primary_verification.verdict = JStr("false")
  /\ primary_verification.confidence = JNum(720)
  /\ ImageConsensusReturned
  /\ image_analysis.gemini.verdict = JStr("fake")
  /\ image_analysis.openai.verdict = JStr("real")
  /\ image_analysis.gemini.confidence = image_analysis.openai.confidence
  /\ image_analysis.primary.verdict = JStr("real")
  /\ image_analysis.primary.is_deepfake = JBool(FALSE)

\* C27: while the record is 'analyzing' a request answers 'already_analyzing',
\* schedules nothing and leaves the record alone; so a record has at most one
\* analysis task pending or running, and only while it is 'analyzing'.
C27_AtMostOneAnalysisTask ==
  /\ [](/\ Len(tasks) <= 1
        /\ tasks # <<>> => media.analysis_status = "analyzing")
  /\ [][media.analysis_status = "analyzing"
          => /\ Len(tasks') <= Len(tasks)
             /\ http_response' # http_response
                  => /\ http_response' = "already_analyzing"
                     /\ media' = media
                     /\ tasks' = tasks]_vars

\* C27 witness: a request refused while the video task is among its frames
C27_Witness ==
  /\ media.analysis_status = "analyzing"
  /\ http_response = "already_analyzing"
  /\ Len(tasks) = 1
  /\ tasks[1].pc = "gather"
  /\ Len(tasks[1].frame_results) = 1

\* C29: an upload whose suffix is not supported is answered 400 and creates no
\* record; an upload that creates a record creates it with file_type image or
\* video and analysis_status pending.  (A step that answers while no record
\* exists, other than the 404 of an analyze request, answers an upload.)
C29_UnsupportedUploadGets400 ==
  [][(~media.exists /\ http_response' # http_response /\ http_response' # "404")
       => IF media'.exists
            THEN /\ http_response' = "uploaded"
                 /\ media'.file_type \in {"image", "video"}
                 /\ media'.analysis_status = "pending"
            ELSE http_response' = "400"]_vars

\* committed rows of a table
RowsOf(table) == {i \in DOMAIN committed : committed[i].table = table}

\* C28: when a detection cycle has ended, either no step raised and the Claim,
\* Verification and Explanation rows of every extracted claim are committed,
\* or a step raised, the exception left the cycle and no row is committed.
C28_CyclePersistsAllOrNothing ==
  CycleEnded =>
    IF error = NoError
      THEN /\ pc = "committed"
           /\ Cardinality(RowsOf("claims")) = Len(extracted_claims)
           /\ Cardinality(RowsOf("explanations")) = Len(extracted_claims)
           /\ Cardinality(RowsOf("verifications")) >= Len(extracted_claims)
      ELSE /\ pc = "rolled_back"
           /\ committed = <<>>

\* C28 witness: the second claim of a batch raised after the rows of the first
\* had been staged, and nothing is committed
C28_Witness ==
  /\ pc = "rolled_back"
  /\ Len(extracted_claims) = 2 /\ claim_index = 2
  /\ error # NoError
  /\ committed = <<>>

\* the loop of start_monitoring is not running
LoopEnded == monitoring.pc \in {"idle", "returned"}

\* C30: a detection cycle that raises does not end the monitoring loop: the
\* loop waits, comes back to its condition and, still running, starts another
\* cycle; and once stop_monitoring is called, as long as start_monitoring is
\* not called again, no further cycle is started and the loop ends.
C30_LoopSurvivesFailureAndStops ==
  /\ [][/\ monitoring.pc = "cycle" => monitoring'.pc # "returned"
        /\ monitoring.pc = "error_sleep" => monitoring'.pc \in {"error_sleep", "test"}
        /\ (monitoring.pc = "test" /\ monitoring.is_running
              /\ monitoring'.pc # monitoring.pc)
             => monitoring'.pc = "cycle"
        /\ (monitoring.stopped /\ monitoring'.stopped)
             => monitoring'.cycles = monitoring.cycles]_vars
  /\ [](monitoring.stopped => <>(LoopEnded \/ ~monitoring.stopped))

\* C30 witness: a cycle raised, a later cycle was started, then the loop was
\* stopped during a cycle and has ended
C30_Witness ==
  /\ monitoring.failures >= 1
  /\ monitoring.cycles >= 2
  /\ monitoring.stopped
  /\ monitoring.pc = "returned"

====
